---------------------------- MODULE Spec2Model ----------------------------
(***************************************************************************)
(* Model of temp/parse_html_to_csv.py: the prediction extractor, the       *)
(* betting-line extractor and the joiner that main() runs one after the    *)
(* other, and of the report scripts that read the emitted file back.       *)
(*                                                                         *)
(* Texts the code converts (int(), float(), f"{x:.1f}") are sequences of   *)
(* one-character strings, so that a conversion is computed character by    *)
(* character.  Decimals are integers in fixed units: thousandths for the   *)
(* values float() returns, hundredths inside the score derivation.  The    *)
(* decimal inputs of the model are tenths and eighths with at most three   *)
(* fraction digits; on those the binary floating point results of the      *)
(* code and the exact results computed here round alike (an eighth is      *)
(* exact in binary, so x.x25 and x.x75 are true ties, rounded to even).    *)
(***************************************************************************)
EXTENDS Integers, Sequences, FiniteSets, TLC

VARIABLES
    pc,             \* position of main()
    predHtml,       \* predictions_table.html: None, or its <tr> rows
    betHtml,        \* betting_table.html: None, or its <tr> rows
    game_rows,      \* parse_predictions_table: the rows find_all matched
    games,          \* parse_predictions_table: the records appended so far
    all_rows,       \* parse_betting_table: the rows find_all returned
    betting_lines,  \* parse_betting_table: the mapping built so far
    predictions,    \* main: what parse_predictions_table returned
    n,              \* index of the next row of the loop that is running
    csvOpened,      \* the output file has been opened for writing
    csvRows,        \* data rows written to the output file, in order
    stdout,         \* the lines printed so far
    value_opportunities,  \* report scripts: the opportunities appended so far
    locals          \* report scripts: what the last turn of the game loop computed

vars == <<pc, predHtml, betHtml, game_rows, games, all_rows, betting_lines,
          predictions, n, csvOpened, csvRows, stdout, value_opportunities, locals>>

\* ------------------------------------------------------------------ bounds
MaxRows == 2          \* <tr> rows of a predictions document
MaxBetRows == 1       \* <tr> rows of a betting document
MarketSweep == 130    \* market attributes swept: 50 - MarketSweep .. 50 + MarketSweep
SpreadSweep == 21     \* spreads swept: -SpreadSweep .. SpreadSweep points
MaxOddsRows == 2      \* <tr> rows of a betting document read beside one fixed game
MaxGames == 2         \* data rows of a file the report scripts read
ValueSweep == 8       \* market attributes behind the file's rows: 50 - ValueSweep .. 50 + ValueSweep
SpreadTenths == 6     \* spreads behind the file's rows: tenths within +/- SpreadTenths
SpreadHalves == 3     \* spreads the probability report is read on: halves within +/- SpreadHalves

\* ------------------------------------------------------- program constants
DefaultMarket == 50
Baseline == 24
PointScale == 28
MinScore == 14
MaxScore == 35
DefaultTotal == 45

\* ------------------------------------------------------------------- texts
None == <<>>          \* a file, element or attribute that is not there
Some(x) == <<x>>      \* one that is; Get(o) is what it holds
Get(o) == o[1]

DigitChars == <<"0", "1", "2", "3", "4", "5", "6", "7", "8", "9">>
DigitSet == {DigitChars[i] : i \in 1..10}
DigitVal(c) == (CHOOSE i \in 1..10 : DigitChars[i] = c) - 1

Abs(x) == IF x < 0 THEN -x ELSE x
Max2(a, b) == IF a > b THEN a ELSE b
Min2(a, b) == IF a < b THEN a ELSE b

RECURSIVE Pow10(_)
Pow10(k) == IF k = 0 THEN 1 ELSE 10 * Pow10(k - 1)

IsDigits(s) == \A i \in 1..Len(s) : s[i] \in DigitSet

RECURSIVE NatOf(_)
NatOf(s) == IF s = <<>> THEN 0
            ELSE 10 * NatOf(SubSeq(s, 1, Len(s) - 1)) + DigitVal(s[Len(s)])

RECURSIVE NatText(_)
NatText(k) == IF k < 10 THEN <<DigitChars[k + 1]>>
              ELSE Append(NatText(k \div 10), DigitChars[(k % 10) + 1])

Tail1(s) == SubSeq(s, 2, Len(s))
StartsWith(s, c) == Len(s) > 0 /\ s[1] = c
Contains(s, c) == \E i \in 1..Len(s) : s[i] = c

\* int(text): an optional sign, then one or more digits; anything else raises
\* ValueError.  [ok |-> FALSE] is the raise.
ParseInt(s) ==
    LET signed == StartsWith(s, "+") \/ StartsWith(s, "-")
        body == IF signed THEN Tail1(s) ELSE s
    IN  IF Len(body) > 0 /\ IsDigits(body)
        THEN [ok |-> TRUE,
              val |-> IF StartsWith(s, "-") THEN -NatOf(body) ELSE NatOf(body)]
        ELSE [ok |-> FALSE, val |-> 0]

\* float(text), in thousandths: an optional sign, digits with at most one
\* point and at least one digit; anything else raises ValueError.
ParseFloat(s) ==
    LET signed == StartsWith(s, "+") \/ StartsWith(s, "-")
        body == IF signed THEN Tail1(s) ELSE s
        dots == {i \in 1..Len(body) : body[i] = "."}
        dot == IF dots = {} THEN Len(body) + 1 ELSE CHOOSE i \in dots : TRUE
        whole == SubSeq(body, 1, dot - 1)
        frac == SubSeq(body, dot + 1, Len(body))
        mag == NatOf(whole) * 1000 + (NatOf(frac) * 1000) \div Pow10(Len(frac))
    IN  IF /\ Cardinality(dots) <= 1
           /\ IsDigits(whole) /\ IsDigits(frac)
           /\ Len(whole) + Len(frac) > 0
        THEN [ok |-> TRUE, val |-> IF StartsWith(s, "-") THEN -mag ELSE mag]
        ELSE [ok |-> FALSE, val |-> 0]

\* round(x, k) and "%.kf": x = num / den rounded to the nearest integer,
\* an exact tie going to the even neighbour.
RoundHalfEven(num, den) ==
    LET q == num \div den
        r == num % den
    IN  IF 2 * r < den THEN q
        ELSE IF 2 * r > den THEN q + 1
        ELSE IF q % 2 = 0 THEN q ELSE q + 1

\* ------------------------------------------- parse_predictions_table, a row
RECURSIVE JoinParts(_)
\* "_".join(parts): the parts with an underscore between neighbours
JoinParts(parts) ==
    IF parts = <<>> THEN <<>>
    ELSE IF Len(parts) = 1 THEN parts[1]
    ELSE parts[1] \o <<"_">> \o JoinParts(Tail(parts))

EndsWithRow(t) ==
    Len(t) >= 3 /\ SubSeq(t, Len(t) - 2, Len(t)) = <<"r", "o", "w">>

\* re.compile(r'row_\d{4}_\d{2}_\w+_\w+') searched in the id, on the id's
\* parts between underscores (each part a non-empty run of word characters).
RowIdMatches(parts) ==
    \E k \in 1..Len(parts) :
        /\ k + 4 <= Len(parts)
        /\ EndsWithRow(parts[k])
        /\ Len(parts[k + 1]) = 4 /\ IsDigits(parts[k + 1])
        /\ Len(parts[k + 2]) = 2 /\ IsDigits(parts[k + 2])

\* soup.find_all('tr', id=...): the matching rows, in document order
FindGameRows(doc) == SelectSeq(doc, LAMBDA row : RowIdMatches(row.id))

\* lines 52-61 and 63-72: the +/- metric of one side
ConfidenceOf(text) ==
    IF text = None THEN 0
    ELSE IF Contains(Get(text), "+") \/ Contains(Get(text), "-")
         THEN LET clean == SelectSeq(Get(text),
                                     LAMBDA c : c \in DigitSet \cup {"+", "-", "."})
                  f == ParseFloat(clean)
              IN  IF f.ok THEN f.val ELSE 0
         ELSE 0

\* lines 75-78: the market attribute of the row's input element, as int() of
\* it; the default when the element or the attribute is missing or empty.
MarketOf(row, name) ==
    IF row.input = None \/ Get(row.input).name # name
    THEN [ok |-> TRUE, val |-> DefaultMarket]
    ELSE IF Get(row.input).market = None \/ Get(Get(row.input).market) = <<>>
         THEN [ok |-> TRUE, val |-> DefaultMarket]
         ELSE ParseInt(Get(Get(row.input).market))

\* lines 82-96, in hundredths of a point; p is market_percentage
HomeWinProb(p) == p                     \* p / 100.0, in hundredths
AwayWinProb(p) == 100 - HomeWinProb(p)
PointDiff(p) ==
    IF HomeWinProb(p) > 50 THEN (HomeWinProb(p) - 50) * PointScale
    ELSE (AwayWinProb(p) - 50) * PointScale
\* UnclampedHome, were the away branch to add as the home branch does
UnclampedHome_Plus(p) == Baseline * 100 + PointDiff(p) \div 2
UnclampedHome(p) ==
    IF HomeWinProb(p) > 50 THEN Baseline * 100 + PointDiff(p) \div 2
    ELSE Baseline * 100 - PointDiff(p) \div 2
UnclampedAway(p) ==
    IF HomeWinProb(p) > 50 THEN Baseline * 100 - PointDiff(p) \div 2
    ELSE Baseline * 100 + PointDiff(p) \div 2

\* Clamp, were the floor left out
Clamp_NoFloor(score) == Min2(MaxScore * 100, score)
\* lines 99-100: max(14, min(35, score)), in hundredths
Clamp(score) == Max2(MinScore * 100, Min2(MaxScore * 100, score))

\* Confidence, were the distance scaled by 25, and were it signed
Confidence_Quarter(p) == (Abs(p - 50) * 10000) \div 25
Confidence_NoAbs(p) == ((p - 50) * 10000) \div 50
\* line 103, in ten-thousandths: abs(market_percentage - 50) / 50.0
Confidence(p) == (Abs(p - 50) * 10000) \div 50

\* lines 34-117: the record a row appends, or the raise that skips the row
ParseRow(row) ==
    LET parts == row.id
        year == parts[2]
        week == parts[3]
        away_team == parts[4]
        home_team == parts[5]
        name == JoinParts(<<year, week, away_team, home_team>>)
        market == MarketOf(row, name)
        p == market.val
        wk == ParseInt(week)
    IN  IF ~market.ok \/ ~wk.ok THEN [ok |-> FALSE]
        ELSE [ok |-> TRUE,
              rec |-> [week |-> wk.val,
                       time |-> IF row.time = None THEN "1:00" ELSE Get(row.time),
                       away_team |-> away_team,
                       home_team |-> home_team,
                       predicted_away_score |-> RoundHalfEven(Clamp(UnclampedAway(p)), 10),
                       predicted_home_score |-> RoundHalfEven(Clamp(UnclampedHome(p)), 10),
                       confidence |-> RoundHalfEven(Confidence(p), 100),
                       away_confidence |-> ConfidenceOf(row.away_text),
                       home_confidence |-> ConfidenceOf(row.home_text),
                       market_percentage |-> p]]

\* ------------------------------------------------- parse_betting_table, a row
team_abbr_map ==
    [Packers |-> <<"G", "B">>, Browns |-> <<"C", "L", "E">>,
     Texans |-> <<"H", "O", "U">>, Jaguars |-> <<"J", "A", "X">>,
     Bengals |-> <<"C", "I", "N">>, Vikings |-> <<"M", "I", "N">>,
     Steelers |-> <<"P", "I", "T">>, Patriots |-> <<"N", "E">>,
     Rams |-> <<"L", "A">>, Eagles |-> <<"P", "H", "I">>,
     Jets |-> <<"N", "Y", "J">>, Buccaneers |-> <<"T", "B">>,
     Colts |-> <<"I", "N", "D">>, Titans |-> <<"T", "E", "N">>,
     Raiders |-> <<"L", "V">>, Commanders |-> <<"W", "A", "S">>,
     Broncos |-> <<"D", "E", "N">>, Chargers |-> <<"L", "A", "C">>,
     Saints |-> <<"N", "O">>, Seahawks |-> <<"S", "E", "A">>,
     Cowboys |-> <<"D", "A", "L">>, Bears |-> <<"C", "H", "I">>,
     Cardinals |-> <<"A", "R", "I">>, Niners |-> <<"S", "F">>,
     Chiefs |-> <<"K", "C">>, Giants |-> <<"N", "Y", "G">>,
     Lions |-> <<"D", "E", "T">>, Ravens |-> <<"B", "A", "L">>,
     Falcons |-> <<"A", "T", "L">>, Panthers |-> <<"C", "A", "R">>]

\* lines 155-161: the span texts that are team names, in document order
TeamNames(spans) == SelectSeq(spans, LAMBDA text : text \in DOMAIN team_abbr_map)

\* lines 194-199: the signed decimal of the spread text, in thousandths
ParseSpread(spread_text) ==
    IF StartsWith(spread_text, "+") THEN ParseFloat(Tail1(spread_text))
    ELSE IF StartsWith(spread_text, "-")
         THEN LET f == ParseFloat(Tail1(spread_text))
              IN  [ok |-> f.ok, val |-> -f.val]
         ELSE ParseFloat(spread_text)

\* lines 172-190: the text of the home spread span of the row, if the row has
\* an odds container whose second odds div holds one
SpreadText(row) ==
    IF row.odds = <<>> THEN None
    ELSE LET odds_divs == row.odds[1]
         IN  IF Len(odds_divs) >= 2 THEN odds_divs[2] ELSE None

\* f"{away}_{home}"
GameKey(away, home) == away \o <<"_">> \o home

\* lines 202-208
BettingLine(away_abbr, home_abbr, home_spread) ==
    [away_team |-> away_abbr, home_team |-> home_abbr,
     market_spread |-> home_spread, home_spread |-> home_spread,
     total |-> DefaultTotal * 1000]

\* betting_lines[game_key] = line
Put(lines, game_key, line) ==
    [k \in DOMAIN lines \cup {game_key} |-> IF k = game_key THEN line ELSE lines[k]]

\* BettingRow, were a spread that does not parse entered as 0.0
BettingRow_DefaultOnBad(lines, row) ==
    IF row.info = None THEN [lines |-> lines, out |-> <<>>]
    ELSE LET team_names == TeamNames(Get(row.info))
         IN  IF Len(team_names) < 2 THEN [lines |-> lines, out |-> <<>>]
             ELSE LET away_abbr == team_abbr_map[team_names[1]]
                      home_abbr == team_abbr_map[team_names[2]]
                      text == SpreadText(row)
                  IN  IF text = None THEN [lines |-> lines, out |-> <<>>]
                      ELSE LET f == ParseSpread(Get(text))
                               key == GameKey(away_abbr, home_abbr)
                           IN  [lines |-> Put(lines, key,
                                              BettingLine(away_abbr, home_abbr,
                                                          IF f.ok THEN f.val ELSE 0)),
                                out |-> <<[kind |-> "found_line", text |-> key]>>]

\* lines 150-214: what one row does to the mapping, and what it prints
BettingRow(lines, row) ==
    IF row.info = None THEN [lines |-> lines, out |-> <<>>]
    ELSE LET team_names == TeamNames(Get(row.info))
         IN  IF Len(team_names) < 2 THEN [lines |-> lines, out |-> <<>>]
             ELSE LET away_abbr == team_abbr_map[team_names[1]]
                      home_abbr == team_abbr_map[team_names[2]]
                      text == SpreadText(row)
                  IN  IF text = None THEN [lines |-> lines, out |-> <<>>]
                      ELSE LET f == ParseSpread(Get(text))
                               key == GameKey(away_abbr, home_abbr)
                           IN  IF f.ok
                               THEN [lines |-> Put(lines, key,
                                                   BettingLine(away_abbr, home_abbr, f.val)),
                                     out |-> <<[kind |-> "found_line", text |-> key]>>]
                               ELSE [lines |-> lines,
                                     out |-> <<[kind |-> "bad_spread", text |-> Get(text)]>>]

\* ------------------------------------------- combine_data_and_generate_csv
\* Fixed1, were the second decimal cut off and not rounded
Fixed1_Truncate(x) ==
    LET t == Abs(x) \div 100
    IN  (IF x < 0 THEN <<"-">> ELSE <<>>)
        \o NatText(t \div 10) \o <<".", DigitChars[(t % 10) + 1]>>

\* f"{x:.1f}" of x thousandths
Fixed1(x) ==
    LET t == RoundHalfEven(Abs(x), 100)
    IN  (IF x < 0 THEN <<"-">> ELSE <<>>)
        \o NatText(t \div 10) \o <<".", DigitChars[(t % 10) + 1]>>

\* SpreadDisplay, were the "+" of a positive spread left out
SpreadDisplay_NoPlus(home_spread) ==
    IF home_spread = 0 THEN <<"0", ".", "0">> ELSE Fixed1(home_spread)
\* lines 250-255
SpreadDisplay(home_spread) ==
    IF home_spread > 0 THEN <<"+">> \o Fixed1(home_spread)
    ELSE IF home_spread < 0 THEN Fixed1(home_spread)
    ELSE <<"0", ".", "0">>

\* BettingData, were the line of the mirrored pairing taken for a game's own
BettingData_Mirrored(lines, game_key) ==
    IF game_key \in DOMAIN lines THEN Some(lines[game_key])
    ELSE LET mirrored == {k \in DOMAIN lines :
                            GameKey(lines[k].home_team, lines[k].away_team) = game_key}
         IN  IF mirrored = {} THEN None ELSE Some(lines[CHOOSE k \in mirrored : TRUE])

\* betting_lines.get(game_key, {})
BettingData(lines, game_key) ==
    IF game_key \in DOMAIN lines THEN Some(lines[game_key]) ELSE None

\* lines 246-247
HomeSpreadOf(betting_data) ==
    IF betting_data = None THEN 0 ELSE Get(betting_data).home_spread
TotalOf(betting_data) ==
    IF betting_data = None THEN DefaultTotal * 1000 ELSE Get(betting_data).total

\* lines 259-270: the row written for a game
OutputRow(game, lines) ==
    LET betting_data == BettingData(lines, GameKey(game.away_team, game.home_team))
    IN  [Week |-> game.week, Date |-> "2025-09-21", Time |-> game.time,
         AwayTeam |-> game.away_team, HomeTeam |-> game.home_team,
         PredictedAwayScore |-> game.predicted_away_score,
         PredictedHomeScore |-> game.predicted_home_score,
         Confidence |-> game.confidence,
         MarketSpread |-> SpreadDisplay(HomeSpreadOf(betting_data)),
         Total |-> TotalOf(betting_data)]

\* ------------------------------------------- the report scripts, reading
\* row['Market Spread (Home)'].replace('+', ''), then float() of it
\* (analyze_value.py line 22, probability_analysis.py lines 42-43)
ReadMarketSpread(text) == ParseFloat(SelectSeq(text, LAMBDA c : c # "+"))

\* ------------------------------------------------------------------ inputs
KC == <<"K", "C">>
NYG == <<"N", "Y", "G">>
HOU == <<"H", "O", "U">>
JAX == <<"J", "A", "X">>
Year == <<"2", "0", "2", "5">>
Week == <<"0", "3">>

\* the id "row_2025_03_<away>_<home>", split at its underscores
RowId(away, home) == <<(<<"r", "o", "w">>), Year, Week, away, home>>
\* the <input name="2025_03_<away>_<home>" market=...> of a row
MarketInput(away, home, market) ==
    Some([name |-> JoinParts(<<Year, Week, away, home>>), market |-> market])

\* the text of an integer, as a page writes it
IntText(k) == IF k < 0 THEN <<"-">> \o NatText(-k) ELSE NatText(k)

\* the text of x thousandths, as a page writes it: no trailing zeros
DecimalText(x) ==
    LET whole == NatText(x \div 1000)
        f == x % 1000
    IN  IF f = 0 THEN whole
        ELSE IF f % 100 = 0 THEN whole \o <<".", DigitChars[(f \div 100) + 1]>>
        ELSE IF f % 10 = 0
             THEN whole \o <<".", DigitChars[(f \div 100) + 1], DigitChars[((f \div 10) % 10) + 1]>>
             ELSE whole \o <<".", DigitChars[(f \div 100) + 1], DigitChars[((f \div 10) % 10) + 1],
                             DigitChars[(f % 10) + 1]>>

\* rows of a predictions document
PredRowInputs ==
    { [id |-> RowId(KC, NYG), time |-> Some("4:25"),
       away_text |-> Some(<<"+", "1", "4", ".", "1">>),
       home_text |-> Some(<<"-", "3", ".", "1">>),
       input |-> MarketInput(KC, NYG, Some(<<"2", "6">>))],
      [id |-> RowId(NYG, KC), time |-> None, away_text |-> None, home_text |-> None,
       input |-> MarketInput(NYG, KC, Some(<<"7", "4">>))],
      \* a market attribute that is no integer
      [id |-> RowId(HOU, JAX), time |-> Some("1:00"),
       away_text |-> Some(<<"-">>), home_text |-> Some(<<"P", "K">>),
       input |-> MarketInput(HOU, JAX, Some(<<"5", "3", "%">>))],
      \* no input element
      [id |-> RowId(HOU, JAX), time |-> None, away_text |-> None, home_text |-> None,
       input |-> None],
      \* an input element with an empty market attribute
      [id |-> RowId(KC, NYG), time |-> None, away_text |-> None, home_text |-> None,
       input |-> MarketInput(KC, NYG, Some(<<>>))],
      \* an id the pattern finds further in: parts[2] is no week number
      [id |-> <<(<<"t">>), (<<"b">>)>> \o RowId(KC, NYG), time |-> None,
       away_text |-> None, home_text |-> None,
       input |-> MarketInput(KC, NYG, Some(<<"2", "6">>))],
      \* a row the pattern does not match
      [id |-> <<(<<"h", "e", "a", "d">>)>>, time |-> None,
       away_text |-> None, home_text |-> None, input |-> None],
      \* a market attribute outside 0..100
      [id |-> RowId(JAX, HOU), time |-> None, away_text |-> None, home_text |-> None,
       input |-> MarketInput(JAX, HOU, Some(<<"1", "5", "0">>))] }

\* a row of the odds page: the span texts of its game info, and the spread
\* spans of the odds divs of its odds containers
BetRow(spans, odds) == [info |-> Some(spans), odds |-> odds]
OneContainer(away_text, home_text) == <<(<<Some(away_text), Some(home_text)>>)>>

BetRowInputs ==
    { BetRow(<<"Chiefs", "Giants">>,
             OneContainer(<<"-", "3", ".", "5">>, <<"+", "3", ".", "5">>)),
      \* desktop and mobile spans, and a span that is no team name
      BetRow(<<"Giants", "vs", "Chiefs", "Giants", "Chiefs">>,
             OneContainer(<<"+", "7">>, <<"-", "7">>)),
      \* one recognized name only
      BetRow(<<"Chiefs", "at">>, OneContainer(<<"-", "1">>, <<"+", "1">>)),
      \* spread text that is no decimal
      BetRow(<<"Texans", "Jaguars">>, OneContainer(<<"P", "K">>, <<"P", "K">>)),
      \* no game info element
      [info |-> None, odds |-> <<>>],
      \* a single odds div
      BetRow(<<"Texans", "Jaguars">>, <<(<<Some(<<"-", "2", ".", "5">>)>>)>>),
      \* unsigned text, a quarter
      BetRow(<<"Chiefs", "Giants">>,
             OneContainer(<<"-", "2", ".", "2", "5">>, <<"2", ".", "2", "5">>)) }

\* rows of an odds page whose spread text carries two signs
OddsRowInputs ==
    BetRowInputs \cup
    { BetRow(<<"Texans", "Jaguars">>,
             OneContainer(<<"+", "3", ".", "5">>, <<"+", "-", "3", ".", "5">>)),
      BetRow(<<"Giants", "Chiefs">>, OneContainer(<<"-", "3">>, <<"-", "-", "3">>)) }

RECURSIVE SeqsUpTo(_, _)
\* the sequences over S of length at most k
SeqsUpTo(S, k) ==
    IF k = 0 THEN {<<>>}
    ELSE LET shorter == SeqsUpTo(S, k - 1)
         IN  shorter \cup {Append(d, x) : d \in {e \in shorter : Len(e) = k - 1}, x \in S}

\* market attributes swept through the score derivation
MarketTexts == {IntText(p) : p \in (50 - MarketSweep)..(50 + MarketSweep)}

\* spreads swept through the joiner: eighths and tenths of a point, written
\* with "+", with "-" and unsigned
SpreadMagnitudes ==
    {125 * k : k \in 0..(8 * SpreadSweep)} \cup {100 * k : k \in 0..(10 * SpreadSweep)}
SpreadTexts ==
    {sign \o DecimalText(x) : sign \in {<<>>, <<"+">>, <<"-">>}, x \in SpreadMagnitudes}

\* ---------------------------------------------------------------- the run
Start ==
    /\ pc = "parse_predictions"
    /\ game_rows = <<>> /\ games = <<>> /\ all_rows = <<>>
    /\ betting_lines = <<>> /\ predictions = <<>>
    /\ n = 1 /\ csvOpened = FALSE /\ csvRows = <<>> /\ stdout = <<>>
    /\ value_opportunities = <<>> /\ locals = <<>>

\* any two small documents, either of them possibly absent
InitDocuments ==
    /\ predHtml \in {None} \cup {Some(d) : d \in SeqsUpTo(PredRowInputs, MaxRows)}
    /\ betHtml \in {None} \cup {Some(d) : d \in SeqsUpTo(BetRowInputs, MaxBetRows)}
    /\ Start

\* one game, every market attribute of the sweep
InitMarket ==
    /\ \E text \in MarketTexts :
          predHtml = Some(<<[id |-> RowId(HOU, JAX), time |-> None,
                             away_text |-> None, home_text |-> None,
                             input |-> MarketInput(HOU, JAX, Some(text))]>>)
    /\ betHtml = Some(<<>>)
    /\ Start

\* one game, every spread text of the sweep
InitSpread ==
    /\ predHtml = Some(<<[id |-> RowId(KC, NYG), time |-> None,
                          away_text |-> None, home_text |-> None,
                          input |-> MarketInput(KC, NYG, Some(<<"2", "6">>))]>>)
    /\ \E text \in SpreadTexts :
          betHtml = Some(<<BetRow(<<"Chiefs", "Giants">>, OneContainer(<<"0">>, text))>>)
    /\ Start

\* one game, any odds page
InitOdds ==
    /\ predHtml = Some(<<[id |-> RowId(HOU, JAX), time |-> None,
                          away_text |-> None, home_text |-> None,
                          input |-> MarketInput(HOU, JAX, Some(<<"5", "3">>))]>>)
    /\ betHtml \in {Some(d) : d \in SeqsUpTo(OddsRowInputs, MaxOddsRows)}
    /\ Start

Init == InitDocuments \/ InitMarket \/ InitSpread \/ InitOdds

Say(kind, text) == [kind |-> kind, text |-> text]

\* main line 280, parse_predictions_table lines 20-29
ParsePredictionsOpen ==
    /\ pc = "parse_predictions"
    /\ IF predHtml = None
       THEN /\ pc' = "raised"
            /\ UNCHANGED <<value_opportunities, locals, game_rows, games, n, stdout>>
       ELSE /\ game_rows' = FindGameRows(Get(predHtml))
            /\ games' = <<>>
            /\ n' = 1
            /\ stdout' = Append(stdout, Say("game_rows", NatText(Len(game_rows'))))
            /\ pc' = "predictions_loop"
    /\ UNCHANGED <<value_opportunities, locals, predHtml, betHtml, all_rows, betting_lines, predictions,
                   csvOpened, csvRows>>

\* ParsePredictionsRow, were the loop left at the first row that raises
ParsePredictionsRow_Break ==
    /\ pc = "predictions_loop"
    /\ n <= Len(game_rows)
    /\ LET row == game_rows[n]
           parsed == ParseRow(row)
       IN  IF parsed.ok
           THEN /\ games' = Append(games, parsed.rec)
                /\ n' = n + 1
                /\ UNCHANGED stdout
           ELSE /\ stdout' = Append(stdout, Say("error_row", JoinParts(row.id)))
                /\ n' = Len(game_rows) + 1
                /\ UNCHANGED games
    /\ UNCHANGED <<value_opportunities, locals, pc, predHtml, betHtml, game_rows, all_rows, betting_lines,
                   predictions, csvOpened, csvRows>>

\* parse_predictions_table lines 31-121, one row
ParsePredictionsRow ==
    /\ pc = "predictions_loop"
    /\ n <= Len(game_rows)
    /\ LET row == game_rows[n]
           parsed == ParseRow(row)
       IN  IF parsed.ok
           THEN /\ games' = Append(games, parsed.rec)
                /\ UNCHANGED stdout
           ELSE /\ stdout' = Append(stdout, Say("error_row", JoinParts(row.id)))
                /\ UNCHANGED games
    /\ n' = n + 1
    /\ UNCHANGED <<value_opportunities, locals, pc, predHtml, betHtml, game_rows, all_rows, betting_lines,
                   predictions, csvOpened, csvRows>>

\* parse_predictions_table line 123, main line 281
ParsePredictionsReturn ==
    /\ pc = "predictions_loop"
    /\ n > Len(game_rows)
    /\ predictions' = games
    /\ stdout' = Append(stdout, Say("found_games", NatText(Len(games))))
    /\ pc' = "parse_betting"
    /\ UNCHANGED <<value_opportunities, locals, predHtml, betHtml, game_rows, games, all_rows, betting_lines,
                   n, csvOpened, csvRows>>

\* ParseBettingOpen, were a missing odds page read as an empty one
ParseBettingOpen_Swallow ==
    /\ pc = "parse_betting"
    /\ all_rows' = IF betHtml = None THEN <<>> ELSE Get(betHtml)
    /\ betting_lines' = <<>>
    /\ n' = 1
    /\ pc' = "betting_loop"
    /\ UNCHANGED <<value_opportunities, locals, predHtml, betHtml, game_rows, games, predictions,
                   csvOpened, csvRows, stdout>>

\* main line 284, parse_betting_table lines 127-145
ParseBettingOpen ==
    /\ pc = "parse_betting"
    /\ IF betHtml = None
       THEN /\ pc' = "raised"
            /\ UNCHANGED <<value_opportunities, locals, all_rows, betting_lines, n>>
       ELSE /\ all_rows' = Get(betHtml)
            /\ betting_lines' = <<>>
            /\ n' = 1
            /\ pc' = "betting_loop"
    /\ UNCHANGED <<value_opportunities, locals, predHtml, betHtml, game_rows, games, predictions,
                   csvOpened, csvRows, stdout>>

\* parse_betting_table lines 147-218, one row
ParseBettingRow ==
    /\ pc = "betting_loop"
    /\ n <= Len(all_rows)
    /\ LET done == BettingRow(betting_lines, all_rows[n])
       IN  /\ betting_lines' = done.lines
           /\ stdout' = stdout \o done.out
    /\ n' = n + 1
    /\ UNCHANGED <<value_opportunities, locals, pc, predHtml, betHtml, game_rows, games, all_rows,
                   predictions, csvOpened, csvRows>>

\* parse_betting_table line 220, main line 285
ParseBettingReturn ==
    /\ pc = "betting_loop"
    /\ n > Len(all_rows)
    /\ stdout' = Append(stdout, Say("found_lines", NatText(Cardinality(DOMAIN betting_lines))))
    /\ pc' = "combine"
    /\ UNCHANGED <<value_opportunities, locals, predHtml, betHtml, game_rows, games, all_rows, betting_lines,
                   predictions, n, csvOpened, csvRows>>

\* main line 288, combine_data_and_generate_csv lines 225-233
CombineOpen ==
    /\ pc = "combine"
    /\ csvOpened' = TRUE
    /\ csvRows' = <<>>
    /\ n' = 1
    /\ pc' = "combine_loop"
    /\ UNCHANGED <<value_opportunities, locals, predHtml, betHtml, game_rows, games, all_rows, betting_lines,
                   predictions, stdout>>

\* CombineRow, were a game without a betting line skipped
CombineRow_SkipUnmatched ==
    /\ pc = "combine_loop"
    /\ n <= Len(predictions)
    /\ LET game == predictions[n]
           game_key == GameKey(game.away_team, game.home_team)
           row == OutputRow(game, betting_lines)
       IN  IF BettingData(betting_lines, game_key) = None
           THEN /\ stdout' = Append(stdout, Say("warning", game_key))
                /\ UNCHANGED csvRows
           ELSE /\ csvRows' = Append(csvRows, row)
                /\ stdout' = Append(stdout, Say("game", row.MarketSpread))
    /\ n' = n + 1
    /\ UNCHANGED <<value_opportunities, locals, pc, predHtml, betHtml, game_rows, games, all_rows,
                   betting_lines, predictions, csvOpened>>

\* combine_data_and_generate_csv lines 235-270, one game
CombineRow ==
    /\ pc = "combine_loop"
    /\ n <= Len(predictions)
    /\ LET game == predictions[n]
           game_key == GameKey(game.away_team, game.home_team)
           row == OutputRow(game, betting_lines)
           warning == IF BettingData(betting_lines, game_key) = None
                      THEN <<Say("warning", game_key)>> ELSE <<>>
       IN  /\ csvRows' = Append(csvRows, row)
           /\ stdout' = stdout \o warning \o <<Say("game", row.MarketSpread)>>
    /\ n' = n + 1
    /\ UNCHANGED <<value_opportunities, locals, pc, predHtml, betHtml, game_rows, games, all_rows,
                   betting_lines, predictions, csvOpened>>

RECURSIVE SampleLines(_, _)
\* main lines 294-305: what is printed for each of the games sampled
SampleLines(sample, lines) ==
    IF sample = <<>> THEN <<>>
    ELSE LET game == sample[1]
             game_key == GameKey(game.away_team, game.home_team)
         IN  <<Say("sample", game_key),
               IF game_key \in DOMAIN lines THEN Say("sample_line", game_key)
               ELSE Say("sample_no_line", game_key)>>
             \o SampleLines(Tail(sample), lines)

\* the end of combine_data_and_generate_csv, main lines 290-305
Finish ==
    /\ pc = "combine_loop"
    /\ n > Len(predictions)
    /\ stdout' = Append(stdout, Say("generated", <<>>))
                     \o SampleLines(SubSeq(predictions, 1, Min2(3, Len(predictions))),
                                    betting_lines)
    /\ pc' = "done"
    /\ UNCHANGED <<value_opportunities, locals, predHtml, betHtml, game_rows, games, all_rows, betting_lines,
                   predictions, n, csvOpened, csvRows>>

Next ==
    \/ ParsePredictionsOpen
    \/ ParsePredictionsRow
    \/ ParsePredictionsReturn
    \/ ParseBettingOpen
    \/ ParseBettingRow
    \/ ParseBettingReturn
    \/ CombineOpen
    \/ CombineRow
    \/ Finish

Spec == Init /\ [][Next]_vars

\* ------------------------------------------------------ analyze_value.py
\* The report scripts read nfl_predictions.csv, the file the joiner writes.
\* str() of a float, as csv.DictWriter writes it; the float in thousandths
StrFloat(x) ==
    IF x < 0 THEN <<"-">> \o DecimalText(-x) \o (IF x % 1000 = 0 THEN <<".", "0">> ELSE <<>>)
    ELSE DecimalText(x) \o (IF x % 1000 = 0 THEN <<".", "0">> ELSE <<>>)

\* a row the joiner writes for a game with the given market attribute
CsvRow(away, home, market, lines) ==
    OutputRow(ParseRow([id |-> RowId(away, home), time |-> None,
                        away_text |-> None, home_text |-> None,
                        input |-> MarketInput(away, home, Some(IntText(market)))]).rec,
              lines)
NoLines == <<>>
OneLine(away, home, home_spread) ==
    Put(NoLines, GameKey(away, home), BettingLine(away, home, home_spread))

\* one game: every market attribute of the sweep, without a line and with
\* every spread of the sweep
SweepRows ==
    {CsvRow(HOU, JAX, 50 + m, NoLines) : m \in (-ValueSweep)..ValueSweep}
    \cup {CsvRow(HOU, JAX, 50 + m, OneLine(HOU, JAX, 100 * k)) :
              m \in (-ValueSweep)..ValueSweep, k \in (-SpreadTenths)..SpreadTenths}
\* a few games to fill longer files
FewRows ==
    { CsvRow(HOU, JAX, 57, NoLines),
      CsvRow(KC, NYG, 43, NoLines),
      CsvRow(KC, NYG, 55, OneLine(KC, NYG, -600)),
      CsvRow(NYG, KC, 50, OneLine(NYG, KC, 3500)) }

\* nothing of the pipeline runs while a report script does
ReportStart ==
    /\ predHtml = None /\ betHtml = None
    /\ game_rows = <<>> /\ games = <<>> /\ all_rows = <<>>
    /\ betting_lines = <<>> /\ predictions = <<>>
    /\ n = 1 /\ csvOpened = FALSE /\ stdout = <<>>
    /\ value_opportunities = <<>> /\ locals = <<>>

InitValue ==
    /\ csvRows \in {<<row>> : row \in SweepRows} \cup SeqsUpTo(FewRows, MaxGames)
    /\ pc = "value_read"
    /\ ReportStart

\* lines 17-24: the game a row of the file is read as, numbers in thousandths
ValueGameOf(row) ==
    LET away == ParseFloat(StrFloat(100 * row.PredictedAwayScore))
        home == ParseFloat(StrFloat(100 * row.PredictedHomeScore))
        spread == ReadMarketSpread(row.MarketSpread)
        confidence == ParseFloat(StrFloat(10 * row.Confidence))
    IN  [ok |-> away.ok /\ home.ok /\ spread.ok /\ confidence.ok,
         game |-> [away_team |-> row.AwayTeam, home_team |-> row.HomeTeam,
                   predicted_away |-> away.val, predicted_home |-> home.val,
                   market_spread |-> spread.val, confidence |-> confidence.val]]

\* lines 14-29
ValueRead ==
    /\ pc = "value_read"
    /\ IF \A i \in 1..Len(csvRows) : ValueGameOf(csvRows[i]).ok
       THEN /\ games' = [i \in 1..Len(csvRows) |-> ValueGameOf(csvRows[i]).game]
            /\ stdout' = Append(stdout, Say("analysis", <<>>))
            /\ pc' = "value_loop"
       ELSE /\ pc' = "raised"
            /\ UNCHANGED <<games, stdout>>
    /\ UNCHANGED <<predHtml, betHtml, game_rows, all_rows, betting_lines, predictions,
                   n, csvOpened, csvRows, value_opportunities, locals>>

\* line 51
SpreadThreshold == 2
Even == <<"E", "V", "E", "N">>
\* f"{game['away_team']} @ {game['home_team']}"
GameName(game) == game.away_team \o <<" ", "@", " ">> \o game.home_team
\* a number of points is a multiple of a half, which binary floats hold exactly
Halves(x) == x % 500 = 0
\* The two float subtractions of lines 33 and 37 are exact when the three
\* operands are halves.  Otherwise the operands are the floats nearest to
\* tenths and the result is off the exact difference by a rounding error of
\* either sign or by none; the error is kept as one unit of the millionths in
\* which spread_diff is held, far above its true size and below all else.
DiffError(game) ==
    IF Halves(game.predicted_home) /\ Halves(game.predicted_away) /\ Halves(game.market_spread)
    THEN {0} ELSE {-1, 0, 1}

\* lines 31-78, one game
ValueGame ==
    /\ pc = "value_loop"
    /\ n <= Len(games)
    /\ \E error \in DiffError(games[n]) :
          LET game == games[n]
              predicted_spread == game.predicted_home - game.predicted_away
              market_spread == game.market_spread
              spread_diff == 1000 * (predicted_spread - market_spread) + error
              market_favorite == IF market_spread < 0 THEN game.home_team
                                 ELSE IF market_spread > 0 THEN game.away_team
                                 ELSE Even
              value_team == IF spread_diff > SpreadThreshold * 1000000
                            THEN game.home_team ELSE game.away_team
              fav_or_dog == IF market_favorite = Even THEN "EVEN"
                            ELSE IF value_team = market_favorite THEN "FAVORITE"
                            ELSE "UNDERDOG"
          IN  /\ locals' = [spread_diff |-> spread_diff]
              /\ value_opportunities' =
                    IF Abs(spread_diff) >= SpreadThreshold * 1000000
                    THEN Append(value_opportunities,
                                [game |-> GameName(game),
                                 predicted_spread |-> predicted_spread,
                                 market_spread |-> market_spread,
                                 spread_diff |-> spread_diff,
                                 value_team |-> value_team,
                                 market_favorite |-> market_favorite,
                                 fav_or_dog |-> fav_or_dog,
                                 confidence |-> game.confidence])
                    ELSE value_opportunities
    /\ n' = n + 1
    /\ UNCHANGED <<pc, predHtml, betHtml, game_rows, games, all_rows, betting_lines,
                   predictions, csvOpened, csvRows, stdout>>

\* lines 80-122: the listing, the counts and the verdict (the percentages
\* compared with 70 as fractions, which no count this small brings near 70)
ValueReport ==
    /\ pc = "value_loop"
    /\ n > Len(games)
    /\ LET total == Len(value_opportunities)
           favorite_values ==
               Cardinality({i \in 1..total : value_opportunities[i].fav_or_dog = "FAVORITE"})
           underdog_values ==
               Cardinality({i \in 1..total : value_opportunities[i].fav_or_dog = "UNDERDOG"})
           verdict == IF total = 0 THEN <<>>
                      ELSE IF favorite_values * 100 > 70 * total
                           THEN <<Say("favorite_bias", <<>>)>>
                      ELSE IF underdog_values * 100 > 70 * total
                           THEN <<Say("underdog_bias", <<>>)>>
                      ELSE <<Say("balanced", <<>>)>>
       IN  stdout' = stdout \o <<Say("found", NatText(total))>>
                       \o [i \in 1..total |-> Say("opportunity", value_opportunities[i].game)]
                       \o <<Say("total", NatText(total)),
                            Say("favorites", NatText(favorite_values)),
                            Say("underdogs", NatText(underdog_values))>>
                       \o verdict
    /\ pc' = "value_done"
    /\ UNCHANGED <<predHtml, betHtml, game_rows, games, all_rows, betting_lines,
                   predictions, n, csvOpened, csvRows, value_opportunities, locals>>

NextValue ==
    \/ ValueRead
    \/ ValueGame
    \/ ValueReport

SpecValue == InitValue /\ [][NextValue]_vars

\* ------------------------------------------------ probability_analysis.py
\* Probabilities are held in millionths, the two values in ten-millionths.
\* lines 9-19: 1 / (1 + math.exp(-spread / 3.3)) at the half points from
\* -4.0 to +4.0, rounded to the millionth; exactly one half at 0
Logistic ==
    <<229326, 257194, 287186, 319173, 352958, 388281,
       424817, 462194, 500000, 537806, 575183, 611719,
       647042, 680827, 712814, 742806, 770674>>
spread_to_probability(spread) ==
    IF spread = 0 THEN 500000 ELSE Logistic[(spread \div 500) + 9]

\* lines 59-75, keyed by f"{away}_{home}"
community_probs ==
    (<<"A", "T", "L", "_", "C", "A", "R">> :> 670000) @@
    (<<"G", "B", "_", "C", "L", "E">> :> 810000) @@
    (<<"H", "O", "U", "_", "J", "A", "X">> :> 470000) @@
    (<<"C", "I", "N", "_", "M", "I", "N">> :> 400000) @@
    (<<"P", "I", "T", "_", "N", "E">> :> 550000) @@
    (<<"L", "A", "_", "P", "H", "I">> :> 370000) @@
    (<<"N", "Y", "J", "_", "T", "B">> :> 250000) @@
    (<<"I", "N", "D", "_", "T", "E", "N">> :> 650000) @@
    (<<"L", "V", "_", "W", "A", "S">> :> 410000) @@
    (<<"D", "E", "N", "_", "L", "A", "C">> :> 410000) @@
    (<<"N", "O", "_", "S", "E", "A">> :> 220000) @@
    (<<"D", "A", "L", "_", "C", "H", "I">> :> 520000) @@
    (<<"A", "R", "I", "_", "S", "F">> :> 450000) @@
    (<<"K", "C", "_", "N", "Y", "G">> :> 740000) @@
    (<<"D", "E", "T", "_", "B", "A", "L">> :> 320000)
\* community_probs.get(game_key, 0.5)
CommunityAwayProb(game_key) ==
    IF game_key \in DOMAIN community_probs THEN community_probs[game_key] ELSE 500000

NYJ == <<"N", "Y", "J">>
TB == <<"T", "B">>
\* games with and without a community probability of their own, without a
\* line and with every spread of the sweep
ProbRows ==
    LET pairs == {<<KC, NYG>>, <<HOU, JAX>>, <<NYJ, TB>>, <<NYG, KC>>}
    IN  {CsvRow(t[1], t[2], 50, NoLines) : t \in pairs}
        \cup {CsvRow(t[1], t[2], 50, OneLine(t[1], t[2], 500 * k)) :
                  t \in pairs, k \in (-SpreadHalves)..SpreadHalves}

\* a few games to fill longer files
FewProbRows ==
    { CsvRow(KC, NYG, 50, OneLine(KC, NYG, 1000)),
      CsvRow(NYJ, TB, 50, NoLines),
      CsvRow(HOU, JAX, 50, OneLine(HOU, JAX, -3500)),
      CsvRow(NYG, KC, 50, OneLine(NYG, KC, 2500)) }

InitProbability ==
    /\ csvRows \in SeqsUpTo(ProbRows, 1) \cup SeqsUpTo(FewProbRows, MaxGames)
    /\ pc = "prob_read"
    /\ ReportStart

\* lines 38-55
ProbRead ==
    /\ pc = "prob_read"
    /\ IF \A i \in 1..Len(csvRows) : ValueGameOf(csvRows[i]).ok
       THEN /\ games' = [i \in 1..Len(csvRows) |-> ValueGameOf(csvRows[i]).game]
            /\ stdout' = Append(stdout, Say("analysis", <<>>))
            /\ pc' = "prob_loop"
       ELSE /\ pc' = "raised"
            /\ UNCHANGED <<games, stdout>>
    /\ UNCHANGED <<predHtml, betHtml, game_rows, all_rows, betting_lines, predictions,
                   n, csvOpened, csvRows, value_opportunities, locals>>

\* line 102: 0.05, in ten-millionths
ValueThreshold == 500000
\* 0.5 and 0.25 and their complements are exact in binary, and so is the
\* one half of a spread of 0: on those the subtractions of lines 84, 95, 98
\* and 99 are exact.  Otherwise each of the two values is off its exact
\* amount by a rounding error of either sign or by none, kept as one unit of
\* the ten-millionths the values are held in.
ValueError(community_away_prob, market_spread) ==
    IF community_away_prob % 250000 = 0 /\ market_spread = 0 THEN {0} ELSE {-1, 0, 1}

\* lines 131-148: the team and the spread it gets
BetLine(value_team, spread) ==
    IF spread > 0 THEN value_team \o <<" ", "+">> \o Fixed1(spread)
    ELSE IF spread < 0 THEN value_team \o <<" ">> \o Fixed1(spread)
    ELSE value_team \o <<" ", "E", "V", "E", "N">>

\* lines 79-159, one game
ProbGame ==
    /\ pc = "prob_loop"
    /\ n <= Len(games)
    /\ LET game == games[n]
           game_key == GameKey(game.away_team, game.home_team)
           community_away_prob == CommunityAwayProb(game_key)
           community_home_prob == 1000000 - community_away_prob
           betting_home_prob == spread_to_probability(-game.market_spread)
           betting_away_prob == 1000000 - betting_home_prob
           errors == ValueError(community_away_prob, game.market_spread)
       IN  \E away_error \in errors, home_error \in errors :
             LET away_value == 10 * (community_away_prob - betting_away_prob) + away_error
                 home_value == 10 * (community_home_prob - betting_home_prob) + home_error
                 away == Abs(away_value) > Abs(home_value)
                 value_team == IF away THEN game.away_team ELSE game.home_team
                 value_amount == IF away THEN away_value ELSE home_value
                 fav_or_dog == IF game.market_spread > 0
                               THEN (IF away THEN "FAVORITE" ELSE "UNDERDOG")
                               ELSE IF game.market_spread < 0
                               THEN (IF away THEN "UNDERDOG" ELSE "FAVORITE")
                               ELSE "EVEN"
                 bet_line == BetLine(value_team, IF away THEN -game.market_spread
                                                 ELSE game.market_spread)
             IN  /\ locals' = [away_value |-> away_value, home_value |-> home_value,
                               community_home_prob |-> community_home_prob,
                               betting_home_prob |-> betting_home_prob]
                 /\ value_opportunities' =
                       IF Abs(away_value) >= ValueThreshold \/ Abs(home_value) >= ValueThreshold
                       THEN Append(value_opportunities,
                                   [game |-> GameName(game),
                                    bet_line |-> bet_line,
                                    value_team |-> value_team,
                                    value_amount |-> value_amount,
                                    community_prob |-> IF away THEN community_away_prob
                                                       ELSE community_home_prob,
                                    betting_prob |-> IF away THEN betting_away_prob
                                                     ELSE betting_home_prob,
                                    fav_or_dog |-> fav_or_dog,
                                    spread |-> game.market_spread])
                       ELSE value_opportunities
    /\ n' = n + 1
    /\ UNCHANGED <<pc, predHtml, betHtml, game_rows, games, all_rows, betting_lines,
                   predictions, csvOpened, csvRows, stdout>>

\* line 162: sort(key=abs(value_amount), reverse=True), which is stable
RECURSIVE SortByValue(_)
SortByValue(opps) ==
    IF opps = <<>> THEN <<>>
    ELSE LET sorted == SortByValue(SubSeq(opps, 1, Len(opps) - 1))
             opp == opps[Len(opps)]
             before == {i \in 1..Len(sorted) :
                           Abs(sorted[i].value_amount) >= Abs(opp.value_amount)}
             k == Cardinality(before)
         IN  SubSeq(sorted, 1, k) \o <<opp>> \o SubSeq(sorted, k + 1, Len(sorted))

\* lines 161-198: the sort, the listing, the counts and the verdict
ProbReport ==
    /\ pc = "prob_loop"
    /\ n > Len(games)
    /\ LET sorted == SortByValue(value_opportunities)
           total == Len(sorted)
           favorite_values == Cardinality({i \in 1..total : sorted[i].fav_or_dog = "FAVORITE"})
           underdog_values == Cardinality({i \in 1..total : sorted[i].fav_or_dog = "UNDERDOG"})
           verdict == IF total = 0 THEN <<>>
                      ELSE IF favorite_values * 100 > 70 * total
                           THEN <<Say("favorite_bias", <<>>)>>
                      ELSE IF underdog_values * 100 > 70 * total
                           THEN <<Say("underdog_bias", <<>>)>>
                      ELSE <<Say("balanced", <<>>)>>
       IN  /\ value_opportunities' = sorted
           /\ stdout' = stdout \o <<Say("found", NatText(total))>>
                           \o [i \in 1..total |-> Say("opportunity", sorted[i].bet_line)]
                           \o <<Say("total", NatText(total)),
                                Say("favorites", NatText(favorite_values)),
                                Say("underdogs", NatText(underdog_values))>>
                           \o verdict
    /\ pc' = "prob_done"
    /\ UNCHANGED <<predHtml, betHtml, game_rows, games, all_rows, betting_lines,
                   predictions, n, csvOpened, csvRows, locals>>

NextProbability ==
    \/ ProbRead
    \/ ProbGame
    \/ ProbReport

SpecProbability == InitProbability /\ [][NextProbability]_vars

\* ------------------------------------------------------------ properties
Keys == DOMAIN betting_lines
KeyOf(game) == game.away_team \o <<"_">> \o game.home_team
Printed(kind, text) == \E i \in 1..Len(stdout) : stdout[i] = [kind |-> kind, text |-> text]

\* C1: the joiner writes exactly one data row per PredictionRecord, in the
\* order of the predictions: while it runs, the rows written are those of the
\* games already visited, and when it is done the number of data rows equals
\* len(predictions) and the i-th row carries the away and home team of the
\* i-th prediction, whether or not a betting line matches.
C1_OneRowPerPrediction ==
    /\ pc = "combine_loop" => Len(csvRows) = n - 1
    /\ pc = "done" => Len(csvRows) = Len(predictions)
    /\ pc \in {"combine_loop", "done"} =>
          \A i \in 1..Len(csvRows) :
              /\ csvRows[i].AwayTeam = predictions[i].away_team
              /\ csvRows[i].HomeTeam = predictions[i].home_team

\* two different games written, one with a betting line and one without
C1_Witness ==
    /\ pc = "done"
    /\ Len(predictions) = 2
    /\ KeyOf(predictions[1]) # KeyOf(predictions[2])
    /\ \E i, j \in 1..2 : KeyOf(predictions[i]) \in Keys /\ KeyOf(predictions[j]) \notin Keys

\* C2: a prediction whose key away_home equals no key of the betting-line
\* mapping (also when only the mirrored key home_away is there) still gets
\* its row, with Market Spread (Home) "0.0" and Total 45.0, and a warning
\* naming the key is printed; a prediction whose key is present gets the
\* home_spread and the total of that entry.
C2_MissingLineDefault ==
    pc \in {"combine_loop", "done"} =>
        /\ Len(csvRows) >= Min2(n - 1, Len(predictions))
        /\ \A i \in 1..Len(csvRows) :
              IF KeyOf(predictions[i]) \in Keys
              THEN /\ csvRows[i].MarketSpread =
                          SpreadDisplay(betting_lines[KeyOf(predictions[i])].home_spread)
                   /\ csvRows[i].Total = betting_lines[KeyOf(predictions[i])].total
              ELSE /\ csvRows[i].MarketSpread = <<"0", ".", "0">>
                   /\ csvRows[i].Total = 45000
                   /\ Printed("warning", KeyOf(predictions[i]))

\* a game whose mirrored key alone is in the mapping, after a game with a line
C2_Witness ==
    /\ pc = "done"
    /\ Len(csvRows) = 2
    /\ KeyOf(predictions[1]) \in Keys
    /\ betting_lines[KeyOf(predictions[1])].home_spread # 0
    /\ KeyOf(predictions[2]) \notin Keys
    /\ predictions[2].home_team \o <<"_">> \o predictions[2].away_team \in Keys

\* C5: when an input document is absent the run ends in the raise and the
\* output file is never opened: the file is opened for writing only after
\* both extractors have returned, which takes both documents.
C5_NoOutputWithoutInputs ==
    /\ csvOpened => predHtml # None /\ betHtml # None /\ pc \in {"combine_loop", "done"}
    /\ ~csvOpened => csvRows = <<>>
    /\ predHtml = None => pc \in {"parse_predictions", "raised"}
    /\ betHtml = None =>
          pc \in {"parse_predictions", "predictions_loop", "parse_betting", "raised"}
    /\ pc = "raised" => (predHtml = None \/ betHtml = None) /\ ~csvOpened

\* the run has ended on the missing odds page after extracting a game
C5_Witness ==
    pc = "raised" /\ predHtml # None /\ betHtml = None /\ predictions # <<>>

\* the market attribute the row's own input element carries, if any
MarketAttribute(row) ==
    IF row.input = None THEN None
    ELSE IF Get(row.input).name # JoinParts(SubSeq(row.id, 2, 5)) THEN None
    ELSE Get(row.input).market
IsIntegerText(t) ==
    LET body == IF StartsWith(t, "+") \/ StartsWith(t, "-") THEN Tail1(t) ELSE t
    IN  body # <<>> /\ \A i \in 1..Len(body) : body[i] \in DigitSet
\* the row has no market value, or one that is no integer
MarketMissingOrUnparsable(row) ==
    \/ MarketAttribute(row) = None
    \/ ~IsIntegerText(Get(MarketAttribute(row)))
\* int() of the row's market attribute or of its week raises
RowRaises(row) ==
    \/ ~IsIntegerText(row.id[3])
    \/ /\ MarketAttribute(row) # None
       /\ Get(MarketAttribute(row)) # <<>>
       /\ ~IsIntegerText(Get(MarketAttribute(row)))
\* the row the loop of parse_predictions_table has just left
JustParsed == pc = "predictions_loop" /\ n > 1

\* C3: a game row whose market element is missing, or whose market attribute
\* is no integer, yields a record with market percentage 50: the row is not
\* skipped because of its market value.
C3_MarketDefault ==
    (JustParsed /\ MarketMissingOrUnparsable(game_rows[n - 1])
                /\ IsIntegerText(game_rows[n - 1].id[3])) =>
        /\ games # <<>>
        /\ games[Len(games)].market_percentage = 50
        /\ games[Len(games)].away_team = game_rows[n - 1].id[4]
        /\ games[Len(games)].home_team = game_rows[n - 1].id[5]

RECURSIVE RecordsOf(_)
\* the records of the rows of a sequence, one per row
RecordsOf(rows) ==
    IF rows = <<>> THEN <<>> ELSE <<ParseRow(rows[1]).rec>> \o RecordsOf(Tail(rows))
\* the matched rows of the document that do not raise, in document order
GoodRows(rows) == SelectSeq(rows, LAMBDA row : ~RowRaises(row))
MatchedRows == SelectSeq(Get(predHtml), LAMBDA row : RowIdMatches(row.id))

\* C4: a row that raises contributes no record and is reported, and every
\* other row is still processed: the records are, at each point of the loop,
\* those of the rows visited that did not raise, the list returned is the
\* document-order subsequence of the matched rows that parsed without
\* raising, and no row ends the run.
C4_SkipAndContinue ==
    /\ pc = "predictions_loop" =>
          /\ game_rows = MatchedRows
          /\ games = RecordsOf(GoodRows(SubSeq(game_rows, 1, n - 1)))
          /\ \A i \in 1..(n - 1) :
                RowRaises(game_rows[i]) => Printed("error_row", JoinParts(game_rows[i].id))
    /\ pc \in {"parse_betting", "betting_loop", "combine", "combine_loop", "done"} =>
          predictions = RecordsOf(GoodRows(MatchedRows))
    /\ pc = "raised" =>
          \/ predHtml = None
          \/ betHtml = None /\ predictions = RecordsOf(GoodRows(MatchedRows))

\* a row that raised, then a row that gave the only record returned
C4_Witness ==
    /\ pc = "done"
    /\ Len(game_rows) = 2
    /\ RowRaises(game_rows[1])
    /\ Len(predictions) = 1
    /\ predictions[1].away_team = game_rows[2].id[4]

Sign(x) == IF x > 0 THEN 1 ELSE IF x < 0 THEN -1 ELSE 0
Records == {games[i] : i \in 1..Len(games)}
\* the row just parsed carries an integer market attribute within 0..100
JustParsedPercentage ==
    /\ JustParsed
    /\ ~RowRaises(game_rows[n - 1])
    /\ MarketAttribute(game_rows[n - 1]) # None
    /\ IsIntegerText(Get(MarketAttribute(game_rows[n - 1])))
    /\ ParseInt(Get(MarketAttribute(game_rows[n - 1]))).val \in 0..100

C7_ScoresClampedAndSigned ==
    \A g \in Records :
        /\ g.predicted_home_score \in (MinScore * 10)..(MaxScore * 10)
        /\ g.predicted_away_score \in (MinScore * 10)..(MaxScore * 10)
        /\ Sign(UnclampedHome(g.market_percentage) - UnclampedAway(g.market_percentage))
              = Sign(g.market_percentage - 50)

\* a record both of whose scores were clamped
C7_Witness ==
    \E g \in Records :
        /\ UnclampedHome(g.market_percentage) > 3500
        /\ UnclampedAway(g.market_percentage) < 1400
        /\ g.predicted_home_score = 350
        /\ g.predicted_away_score = 140

\* C8: for every integer p in [0,100] the confidence of the record is
\* |p - 50| / 50 to the nearest hundredth, lies in [0,1], and is that of
\* 100 - p.
C8_ConfidenceSymmetric ==
    \A g \in Records :
        g.market_percentage \in 0..100 =>
            /\ 2 * Abs(g.confidence * 50 - Abs(g.market_percentage - 50) * 100) <= 50
            /\ g.confidence \in 0..100
            /\ g.confidence = RoundHalfEven(Confidence(100 - g.market_percentage), 100)

\* the record of market="26", of confidence 0.48
C8_Witness ==
    pc = "done" /\ \E g \in Records : g.market_percentage = 26 /\ g.confidence = 48

\* the reference derivation, in hundredths: half the differential
\* |p/100 - 0.5| * 28 on either side of 24
RefHalf(p) == (Abs(p - 50) * 28) \div 2
RefHome(p) == IF p > 50 THEN 2400 + RefHalf(p) ELSE IF p < 50 THEN 2400 - RefHalf(p) ELSE 2400
RefAway(p) == IF p < 50 THEN 2400 + RefHalf(p) ELSE IF p > 50 THEN 2400 - RefHalf(p) ELSE 2400
RefClamp(x) == IF x < 1400 THEN 1400 ELSE IF x > 3500 THEN 3500 ELSE x

\* C9: for every integer p in [0,100] the scores are those of the reference
\* formula: the differential |p/100 - 0.5| * 28 split evenly around 24, the
\* side with probability above 0.5 getting 24 + half, then both clamped to
\* [14,35] and stored to one decimal; p = 50 gives 24.0, 24.0 and confidence
\* 0.0, and p = 26 gives home 20.64 and away 27.36 with no clamping.
C9_ReferenceFormula ==
    \A g \in Records :
        LET p == g.market_percentage
        IN  /\ p \in 0..100 =>
                  /\ UnclampedHome(p) = RefHome(p)
                  /\ UnclampedAway(p) = RefAway(p)
                  /\ 2 * Abs(g.predicted_home_score * 10 - RefClamp(RefHome(p))) <= 10
                  /\ 2 * Abs(g.predicted_away_score * 10 - RefClamp(RefAway(p))) <= 10
            /\ p = 50 =>
                  /\ g.predicted_home_score = 240 /\ g.predicted_away_score = 240
                  /\ g.confidence = 0
            /\ p = 26 =>
                  /\ UnclampedHome(p) = 2064 /\ UnclampedAway(p) = 2736
                  /\ Clamp(UnclampedHome(p)) = 2064 /\ Clamp(UnclampedAway(p)) = 2736
                  /\ g.predicted_home_score = 206 /\ g.predicted_away_score = 274

\* the records of market="26" and of market="74", written out
C9_Witness ==
    /\ pc = "done"
    /\ \E g \in Records : g.market_percentage = 26 /\ g.predicted_home_score = 206
    /\ \E g \in Records : g.market_percentage = 74 /\ g.predicted_home_score = 274

\* the home spread the joiner renders for the i-th game, in thousandths
SpreadOfRow(i) ==
    IF KeyOf(predictions[i]) \in Keys
    THEN betting_lines[KeyOf(predictions[i])].home_spread ELSE 0
\* digits, a point, one digit
OneDecimal(t) ==
    /\ Len(t) >= 3
    /\ t[Len(t) - 1] = "."
    /\ t[Len(t)] \in DigitSet
    /\ \A i \in 1..(Len(t) - 2) : t[i] \in DigitSet

C11_RenderReadRoundTrip ==
    pc \in {"combine_loop", "done"} =>
        \A i \in 1..Len(csvRows) :
            (SpreadOfRow(i) >= -20000 /\ SpreadOfRow(i) <= 20000) =>
                /\ ReadMarketSpread(csvRows[i].MarketSpread).ok
                /\ ReadMarketSpread(csvRows[i].MarketSpread).val
                      = 100 * RoundHalfEven(SpreadOfRow(i), 100)

\* the spread -19.875 written as -19.9 and read back as -19.9
C11_Witness ==
    /\ pc = "done"
    /\ Len(csvRows) = 1
    /\ SpreadOfRow(1) = -19875
    /\ ReadMarketSpread(csvRows[1].MarketSpread) = [ok |-> TRUE, val |-> -19900]

\* the betting rows the loop of parse_betting_table has visited
SeenBetRows ==
    IF pc = "betting_loop" THEN 1..(n - 1)
    ELSE IF pc \in {"combine", "combine_loop", "done"} THEN 1..Len(all_rows)
    ELSE {}
\* the team names among the span texts of the row's game info
RecognizedNames(row) ==
    IF row.info = None THEN <<>>
    ELSE SelectSeq(Get(row.info), LAMBDA text : text \in DOMAIN team_abbr_map)
\* the row has a home spread text, and whether the parser accepts it
HasSpreadText(row) == SpreadText(row) # None
SpreadAccepted(row) == HasSpreadText(row) /\ ParseSpread(Get(SpreadText(row))).ok
\* the row names two teams and its home spread text parses
AddsLine(row) == Len(RecognizedNames(row)) >= 2 /\ SpreadAccepted(row)
RowKey(row) ==
    team_abbr_map[RecognizedNames(row)[1]] \o <<"_">> \o team_abbr_map[RecognizedNames(row)[2]]
\* the last row visited that adds a line under the key
LastAdding(key) ==
    CHOOSE i \in SeenBetRows :
        /\ AddsLine(all_rows[i]) /\ RowKey(all_rows[i]) = key
        /\ \A j \in SeenBetRows :
              (AddsLine(all_rows[j]) /\ RowKey(all_rows[j]) = key) => j <= i

\* C12: the betting-line mapping holds an entry only for a row with at least
\* two recognized team names whose home spread text parses: a row with fewer
\* names or with unparsable text adds no entry and no default value, and the
\* rows after it are still processed.  At each point the keys are those of
\* the rows visited that name two teams and parse, and each entry carries
\* the spread of the last such row.
C12_EntriesOnlyFromParsedRows ==
    pc \in {"betting_loop", "combine", "combine_loop", "done"} =>
        /\ Keys = {RowKey(all_rows[i]) : i \in {j \in SeenBetRows : AddsLine(all_rows[j])}}
        /\ \A key \in Keys :
              /\ betting_lines[key].home_spread
                    = ParseSpread(Get(SpreadText(all_rows[LastAdding(key)]))).val
              /\ betting_lines[key].total = 45000
        /\ \A i \in SeenBetRows :
              (Len(RecognizedNames(all_rows[i])) >= 2 /\ HasSpreadText(all_rows[i])
                  /\ ~SpreadAccepted(all_rows[i]))
              => Printed("bad_spread", Get(SpreadText(all_rows[i])))

\* an unparsable spread of the game's own pairing, then a row that adds the
\* only line: the game is written with the default of a missing line
C12_Witness ==
    /\ pc = "done"
    /\ Len(all_rows) = 2
    /\ Len(RecognizedNames(all_rows[1])) >= 2
    /\ HasSpreadText(all_rows[1]) /\ ~SpreadAccepted(all_rows[1])
    /\ RowKey(all_rows[1]) = KeyOf(predictions[1])
    /\ AddsLine(all_rows[2])
    /\ Keys = {RowKey(all_rows[2])}
    /\ csvRows[1].MarketSpread = <<"0", ".", "0">>

\* C13: of every spread text the parser accepts, one prefixed with "+" parses
\* as a positive decimal, one prefixed with "-" as a negative decimal, and
\* any other as it stands (zero counted with either sign).
C13_SignOfPrefix ==
    (pc = "betting_loop" /\ n > 1 /\ AddsLine(all_rows[n - 1])) =>
        LET text == Get(SpreadText(all_rows[n - 1]))
            home_spread == betting_lines[RowKey(all_rows[n - 1])].home_spread
        IN  /\ StartsWith(text, "+") => home_spread >= 0
            /\ StartsWith(text, "-") => home_spread <= 0
            /\ (~StartsWith(text, "+") /\ ~StartsWith(text, "-"))
                  => home_spread = ParseFloat(text).val

\* C14: every game whose spread_diff is at least 2.0 in magnitude, the
\* magnitude 2.0 itself included, is flagged, and its value team is the home
\* team when spread_diff is positive and the away team when it is negative.
C14_ValueTeamBySign ==
    (pc = "value_loop" /\ n > 1) =>
        LET game == games[n - 1]
            spread_diff == locals.spread_diff
        IN  Abs(spread_diff) >= SpreadThreshold * 1000000 =>
                /\ value_opportunities # <<>>
                /\ LET opp == value_opportunities[Len(value_opportunities)]
                   IN  /\ opp.game = GameName(game)
                       /\ opp.spread_diff = spread_diff
                       /\ spread_diff > 0 => opp.value_team = game.home_team
                       /\ spread_diff < 0 => opp.value_team = game.away_team

\* C15: home_value is the negative of away_value, so the magnitude of
\* away_value never exceeds that of home_value: every flagged opportunity
\* names the home team, and its value_amount is negative whenever the
\* community probability of the home team is below the betting-implied one.
C15_AlwaysHomeTeam ==
    (pc = "prob_loop" /\ n > 1) =>
        LET game == games[n - 1]
        IN  /\ ~(Abs(locals.away_value) > Abs(locals.home_value))
            /\ (Abs(locals.away_value) >= ValueThreshold
                    \/ Abs(locals.home_value) >= ValueThreshold) =>
                  /\ value_opportunities # <<>>
                  /\ LET opp == value_opportunities[Len(value_opportunities)]
                     IN  /\ opp.game = GameName(game)
                         /\ opp.value_team = game.home_team
                         /\ locals.community_home_prob < locals.betting_home_prob
                               => opp.value_amount < 0

=============================================================================
